---- MODULE Spec2Model ----
(***************************************************************************)
(* QuerySphere: the retrieval-and-synthesis pipeline of backend.py         *)
(* (process_query and the stages it calls) and the Analyze handler of      *)
(* app.py that invokes it.                                                 *)
(*                                                                         *)
(* Strings whose characters the code inspects (file names, URLs, chunk     *)
(* texts) are sequences of one-character strings.  Opaque service payloads *)
(* (the language model's content, messages) are TLA+ strings.              *)
(***************************************************************************)
EXTENDS Integers, Sequences, FiniteSets, TLC

\* ------------------------------------------------------------------ bounds
\* Largest number of blocks / paragraphs of a generated document.
MaxUnits == 4
\* Largest number of pages of a generated PDF.
MaxPages == 2
\* Largest number of blocks / paragraphs of a document behind a URL or
\* offered to the application.
MaxRemoteUnits == 1

\* ------------------------------------------------------- program constants
\* backend.py: `if len(text) > 40`
MinChunkLen == 40
\* backend.py: `k = 3`
K == 3

\* Python's None, and a value that is present where None may stand.
None == [none |-> TRUE]
Some(v) == [some |-> v]

\* ----------------------------------------------------------- string helpers
Rep(c, n) == [i \in 1..n |-> c]

Min(a, b) == IF a <= b THEN a ELSE b

\* Characters str.strip() removes among those the model uses.
IsSpace(c) == c \in {" ", "\n"}

\* str.replace('\n', ' ')
ReplaceNewlines(s) == [i \in 1..Len(s) |-> IF s[i] = "\n" THEN " " ELSE s[i]]

\* str.strip(): what lies between the first and the last character that is
\* not whitespace.
Strip(s) ==
    LET solid == {i \in 1..Len(s) : ~IsSpace(s[i])}
    IN IF solid = {} THEN <<>>
       ELSE SubSeq(s, CHOOSE i \in solid : \A j \in solid : i <= j,
                      CHOOSE i \in solid : \A j \in solid : i >= j)

\* str.startswith(p)
StartsWith(s, p) == Len(s) >= Len(p) /\ SubSeq(s, 1, Len(p)) = p

\* str.endswith(p)
EndsWith(s, p) == Len(s) >= Len(p) /\ SubSeq(s, Len(s) - Len(p) + 1, Len(s)) = p

\* str.lower(), on the letters the model's names use.
LowerChar(c) ==
    CASE c = "P" -> "p" [] c = "D" -> "d" [] c = "F" -> "f"
      [] c = "O" -> "o" [] c = "C" -> "c" [] c = "X" -> "x"
      [] c = "E" -> "e" [] c = "M" -> "m" [] c = "L" -> "l"
      [] OTHER -> c
Lower(s) == [i \in 1..Len(s) |-> LowerChar(s[i])]

\* str.split(sep): the pieces between the leftmost non-overlapping separators.
RECURSIVE Split(_, _)
Split(s, sep) ==
    LET at == {i \in 1..(Len(s) - Len(sep) + 1) : SubSeq(s, i, i + Len(sep) - 1) = sep}
    IN IF at = {} THEN <<s>>
       ELSE LET first == CHOOSE i \in at : \A j \in at : i <= j
            IN <<SubSeq(s, 1, first - 1)>> \o Split(SubSeq(s, first + Len(sep), Len(s)), sep)

\* sep.join(parts)
RECURSIVE Join(_, _)
Join(parts, sep) ==
    IF parts = <<>> THEN <<>>
    ELSE IF Len(parts) = 1 THEN parts[1]
    ELSE parts[1] \o sep \o Join(Tail(parts), sep)

\* Python list indexing, with negative positions counted from the end.
PyIndex(list, i) == IF i >= 0 THEN list[i + 1] ELSE list[Len(list) + i + 1]

\* ---------------------------------------------------------------- documents
\* A document's parsed content is described by its format, the kinds of its
\* text units (PDF layout blocks, Word paragraphs, e-mail body paragraphs) in
\* document order, the positions at which a new PDF page starts, and the MIME
\* shape of an e-mail.  The text of a unit is fixed by its kind and position.
UnitKinds == {"edge", "keep"}

\* "edge": exactly MinChunkLen characters once normalised (surrounded by
\* whitespace); "keep": MinChunkLen + i characters, with a line break inside.
RawText(kind, i) ==
    IF kind = "edge"
    THEN <<" ">> \o Rep("e", MinChunkLen) \o <<"\n">>
    ELSE Rep("k", MinChunkLen - 1) \o <<"\n">> \o Rep("k", i) \o <<" ">>

EmlShapes == {"plain", "html", "mixed"}

UnitSeqs(n) == UNION {[1..m -> UnitKinds] : m \in 0..n}

Contents(n) ==
    {[format |-> "docx", units |-> u, breaks |-> {}, shape |-> "none"] : u \in UnitSeqs(n)}
  \cup
    {[format |-> "eml", units |-> u, breaks |-> {}, shape |-> s] :
        u \in UnitSeqs(n), s \in EmlShapes}
  \cup
    UNION {{[format |-> "pdf", units |-> u, breaks |-> b, shape |-> "none"] :
                b \in {x \in SUBSET (1..Len(u)) : Cardinality(x) < MaxPages}} :
            u \in UnitSeqs(n)}

\* Bytes no parser accepts.
Garbage == [format |-> "garbage", units |-> <<>>, breaks |-> {}, shape |-> "none"]

UnitTexts(c) == [i \in 1..Len(c.units) |-> RawText(c.units[i], i)]

\* fitz: the pages of the document, each the texts of its layout blocks.
\* A break at position i starts a new page before unit i (a break at 1 leaves
\* the first page without text blocks).
PageOf(c, i) == 1 + Cardinality({b \in c.breaks : b <= i})
NumPages(c) == 1 + Cardinality(c.breaks)
PdfPages(c) ==
    [p \in 1..NumPages(c) |->
        LET on == {i \in 1..Len(c.units) : PageOf(c, i) = p}
            lo == IF on = {} THEN 1 ELSE CHOOSE i \in on : \A j \in on : i <= j
        IN [k \in 1..Cardinality(on) |-> RawText(c.units[lo + k - 1], lo + k - 1)]]

\* python-docx: doc.paragraphs, each paragraph's text.
DocxParagraphs(c) == UnitTexts(c)

\* email: the message the bytes parse to.  Its body is the paragraphs joined
\* by blank lines; a "mixed" message carries an attachment before the body
\* part and a second inline plain-text part after it.
AttachmentDisposition == "attachment; filename=\"notes.txt\""
EmlBody(c) == Join(UnitTexts(c), <<"\n", "\n">>)
Part(ctype, disposition, payload) ==
    [ctype |-> ctype, disposition |-> disposition, payload |-> payload]
EmlMessage(c) ==
    CASE c.shape = "plain" ->
           [multipart |-> FALSE, walk |-> <<Part("text/plain", "None", EmlBody(c))>>]
      [] c.shape = "html" ->
           [multipart |-> FALSE, walk |-> <<Part("text/html", "None", EmlBody(c))>>]
      [] OTHER ->
           [multipart |-> TRUE,
            walk |-> << Part("multipart/mixed", "None", <<>>),
                        Part("text/plain", AttachmentDisposition, RawText("keep", 7)),
                        Part("text/plain", "None", EmlBody(c)),
                        Part("text/plain", "inline", RawText("keep", 8)) >>]

\* `'attachment' not in content_disposition`, on the dispositions above
\* (the code takes str() of the header, so a missing header is "None").
MentionsAttachment(disposition) == disposition = AttachmentDisposition

\* ------------------------------------------------ extract_text_from_document
Chunk(text, n, label) == [text |-> text, page |-> n, source |-> <<label, n>>]

\* Mutant of KeepsChunk: the filter written `>=`.
KeepsChunkInclusive(text) == Len(text) >= MinChunkLen

\* `if len(text) > 40`
KeepsChunk(text) == Len(text) > MinChunkLen

\* Mutant of Locator: the 0-based loop counter used as the locator.
LocatorZeroBased(num) == num

\* The locator of the unit enumerate() numbers page_num / para_num (0-based).
Locator(num) == num + 1

\* The inner loop over one PDF page's blocks (lines 43-50).
RECURSIVE PdfBlockLoop(_, _)
PdfBlockLoop(blocks, page_num) ==
    IF blocks = <<>> THEN <<>>
    ELSE LET text == Strip(ReplaceNewlines(Head(blocks)))
         IN (IF KeepsChunk(text)
             THEN <<Chunk(text, Locator(page_num), "PDF page ")>>
             ELSE <<>>) \o PdfBlockLoop(Tail(blocks), page_num)

\* The loop over the PDF's pages (lines 41-50).
RECURSIVE PdfPageLoop(_, _)
PdfPageLoop(pages, page_num) ==
    IF page_num >= Len(pages) THEN <<>>
    ELSE PdfBlockLoop(pages[page_num + 1], page_num) \o PdfPageLoop(pages, page_num + 1)

\* The loop over the Word document's paragraphs (lines 54-61).
RECURSIVE DocxLoop(_, _)
DocxLoop(paragraphs, para_num) ==
    IF para_num >= Len(paragraphs) THEN <<>>
    ELSE LET text == Strip(paragraphs[para_num + 1])
         IN (IF KeepsChunk(text)
             THEN <<Chunk(text, Locator(para_num), "Section ")>>
             ELSE <<>>) \o DocxLoop(paragraphs, para_num + 1)

\* The body of an e-mail (lines 65-75): the first plain-text part that is not
\* an attachment, or the message's own payload when it is plain text.
RECURSIVE EmlWalk(_)
EmlWalk(parts) ==
    IF parts = <<>> THEN <<>>
    ELSE IF Head(parts).ctype = "text/plain" /\ ~MentionsAttachment(Head(parts).disposition)
         THEN Head(parts).payload
         ELSE EmlWalk(Tail(parts))
EmlBodyOf(msg) ==
    IF msg.multipart THEN EmlWalk(msg.walk)
    ELSE IF msg.walk[1].ctype = "text/plain" THEN msg.walk[1].payload ELSE <<>>

\* The loop over the body's paragraphs (lines 77-84).
RECURSIVE EmlLoop(_, _)
EmlLoop(paras, para_num) ==
    IF para_num >= Len(paras) THEN <<>>
    ELSE LET text == Strip(ReplaceNewlines(paras[para_num + 1]))
         IN (IF KeepsChunk(text)
             THEN <<Chunk(text, Locator(para_num), "Paragraph ")>>
             ELSE <<>>) \o EmlLoop(paras, para_num + 1)

\* get_file_from_blob_url: the bytes the server holds, or None when the
\* request raises or the status is not successful.
FetchOutcomes == {"ok", "network_error", "http_error"}
GetFileFromBlobUrl(remote, fetch) == IF fetch = "ok" THEN Some(remote) ELSE None

Http == <<"h", "t", "t", "p", ":", "/", "/">>
Https == <<"h", "t", "t", "p", "s", ":", "/", "/">>
IsUrl(ref) == ref.kind = "str" /\ (StartsWith(ref.value, Http) \/ StartsWith(ref.value, Https))

\* `file_or_blob_url.split('/')[-1].split('?')[0]`
UrlFileName(url) == PyIndex(Split(PyIndex(Split(url, <<"/">>), -1), <<"?">>), 0)

Returned(v) == [raised |-> "", value |-> v]
Raised(e) == [raised |-> e, value |-> None]

\* Lines 39-86 once file_name and file_bytes are bound: dispatch on the
\* extension, parse, collect the chunks.  A parser given bytes of another
\* format raises (for e-mail, the payload does not decode); the handler at
\* lines 88-90 prints file_name and returns None.
ExtractFrom(file_name, content) ==
    LET ext(e) == EndsWith(Lower(file_name), e)
        fmt == IF ext(<<".", "p", "d", "f">>) THEN "pdf"
               ELSE IF ext(<<".", "d", "o", "c", "x">>) THEN "docx"
               ELSE IF ext(<<".", "e", "m", "l">>) THEN "eml"
               ELSE "unsupported"
        text_chunks ==
            CASE fmt = "pdf" -> PdfPageLoop(PdfPages(content), 0)
              [] fmt = "docx" -> DocxLoop(DocxParagraphs(content), 0)
              [] fmt = "eml" ->
                   EmlLoop(Split(EmlBodyOf(EmlMessage(content)), <<"\n", "\n">>), 0)
              [] OTHER -> <<>>
    IN IF fmt # "unsupported" /\ content.format # fmt
       THEN Returned(None)
       ELSE Returned(IF text_chunks # <<>> THEN Some(text_chunks) ELSE None)

\* extract_text_from_document (lines 23-90).  A string that is not a URL has
\* no attribute `name`: line 36 raises AttributeError with file_name still
\* unbound, and the handler's print of file_name (line 89) raises
\* UnboundLocalError out of the function.
ExtractTextFromDocument(ref, fetch) ==
    IF IsUrl(ref)
    THEN LET file_bytes == GetFileFromBlobUrl(ref.remote, fetch)
         IN IF file_bytes = None THEN Returned(None)
            ELSE ExtractFrom(UrlFileName(ref.value), file_bytes.some)
    ELSE IF ref.kind = "upload"
         THEN ExtractFrom(ref.name, ref.content)
         ELSE Raised("UnboundLocalError")

\* ------------------------------------------------------- external services
\* The embedding service: one of a small family of deterministic encoders
\* from strings to two-dimensional integer vectors.
EmbeddingModels == {1, 2}
Encode(model, text) == <<(Len(text) * model) % 5, Len(text) % 3>>

\* IndexFlatL2's metric.
SquaredL2(a, b) == (a[1] - b[1]) * (a[1] - b[1]) + (a[2] - b[2]) * (a[2] - b[2])

\* create_faiss_index (lines 92-102): one batch encode, rows added in input
\* order; None when the encode raises.
CreateFaissIndex(text_chunks, model, encode_ok) ==
    IF encode_ok
    THEN Some([i \in 1..Len(text_chunks) |-> Encode(model, text_chunks[i])])
    ELSE None

\* index.search(q, k) on a flat L2 index: the labels (0-based rows) of the k
\* nearest rows by ascending distance, ties in any order; with fewer than k
\* rows the remaining labels are -1.
IndexSearch(rows, q, k) ==
    LET n == Len(rows)
        m == Min(k, n)
        d(label) == SquaredL2(rows[label + 1], q)
        Ranked == {s \in [1..m -> 0..(n - 1)] :
                     /\ \A i, j \in 1..m : i < j => s[i] # s[j] /\ d(s[i]) <= d(s[j])
                     /\ \A r \in 0..(n - 1) :
                            (\A i \in 1..m : s[i] # r) => \A i \in 1..m : d(s[i]) <= d(r)}
    IN {[i \in 1..k |-> IF i <= m THEN s[i] ELSE -1] : s \in Ranked}

\* `[document_chunks[i] for i in indices[0]]`
Retrieve(chunks, labels) == [i \in 1..Len(labels) |-> PyIndex(chunks, labels[i])]

\* Groq(api_key=...): raises when no key is given and the environment has none.
GroqInitRaises(key, env) == key = None /\ env = None

\* What the chat-completion call can do: raise, or answer with some content.
LlmContents ==
    { "",
      "I could not find that in the document.",
      "{\"relevant_clause\": \"c\", \"explanation\": \"e\", \"source_reference\": \"s\"}",
      "{\"relevant_clause\": \"c\", \"explanation\": \"e\"}",
      "{\"answer\": \"a\"}",
      "[]" }
LlmRaised == [state |-> "raised"]
LlmUnsent == [state |-> "unsent"]
LlmAnswered(content) == [state |-> "answered", content |-> content]
LlmResponses == {LlmRaised} \cup {LlmAnswered(c) : c \in LlmContents}

\* synthesize_answer_with_groq (lines 118-130): the content, or None when the
\* call raises.
SynthesizeAnswerWithGroq(response) ==
    IF response.state = "answered" THEN Some(response.content) ELSE None

\* JSON values: Python dicts are records, lists are sequences.
Dict(r) == [type |-> "dict", v |-> r]
List(s) == [type |-> "list", v |-> s]
JSONDecodeError == [type |-> "JSONDecodeError"]

\* json.loads on the contents above.
JsonLoads(content) ==
    CASE content = "{\"relevant_clause\": \"c\", \"explanation\": \"e\", \"source_reference\": \"s\"}" ->
           Dict([relevant_clause |-> <<"c">>, explanation |-> "e",
                 source_reference |-> <<"s", 0>>])
      [] content = "{\"relevant_clause\": \"c\", \"explanation\": \"e\"}" ->
           Dict([relevant_clause |-> <<"c">>, explanation |-> "e"])
      [] content = "{\"answer\": \"a\"}" -> Dict([answer |-> "a"])
      [] content = "[]" -> List(<<>>)
      [] OTHER -> JSONDecodeError

\* ----------------------------------------------------- process_query results
ErrorResult(message, detail) == Dict([error |-> <<message, detail>>])

ClientInitError ==
    ErrorResult("Failed to initialize Groq client. Check your API key. Details: ", "GroqError")
ExtractionError ==
    ErrorResult("Could not extract text. The file might be empty, image-based, or in an unsupported format.", "")
EmbeddingError == ErrorResult("Failed to create document embeddings.", "")
SearchError == ErrorResult("Failed during search. Details: ", "EncodeError")

ModelFailed == "Model failed to generate response. Showing most relevant clause."
InvalidJson == "Invalid JSON response. Showing most relevant clause."

\* Mutant of TopClause: the second retrieved clause shown.
TopClauseSecond(retrieved) == PyIndex(retrieved, 1)

\* The clause the fallback results show: retrieved_clauses[0].
TopClause(retrieved) == PyIndex(retrieved, 0)

\* The fallback dictionaries of lines 160-164 and 169-173.
Fallback(explanation, retrieved) ==
    Dict([explanation |-> explanation,
          relevant_clause |-> TopClause(retrieved).text,
          source_reference |-> TopClause(retrieved).source])

\* `not synthesized_answer`
AnswerMissing(answer) == answer = None \/ answer.some = ""

\* Lines 159-173: what process_query returns once the synthesizer is back.
FinalResult(answer, retrieved) ==
    IF AnswerMissing(answer) THEN Fallback(ModelFailed, retrieved)
    ELSE IF JsonLoads(answer.some) = JSONDecodeError THEN Fallback(InvalidJson, retrieved)
    ELSE JsonLoads(answer.some)

\* ------------------------------------------------------------------- inputs
NamePdf == <<"a", ".", "p", "d", "f">>
NamePdfUpper == <<"A", ".", "P", "D", "F">>
NameDocx == <<"b", ".", "d", "o", "c", "x">>
NameEml == <<"c", ".", "E", "m", "l">>
NameTxt == <<"d", ".", "t", "x", "t">>
NameOf(format) ==
    CASE format = "pdf" -> NamePdf [] format = "docx" -> NameDocx [] OTHER -> NameEml

UrlOf(format) ==
    CASE format = "pdf" -> Https \o <<"h", "/">> \o NamePdf \o <<"?", "v", "/", "2">>
      [] format = "docx" -> Http \o <<"h", "/", "x", "/">> \o NameDocx
      [] OTHER -> Https \o <<"h", "/">> \o NameEml

Upload(name, content) == [kind |-> "upload", name |-> name, content |-> content]
Str(value, remote) == [kind |-> "str", value |-> value, remote |-> remote]
NoDocument == [kind |-> "none"]

\* A one-paragraph Word document, used where only the file name varies.
SampleDocx == [format |-> "docx", units |-> <<"keep">>, breaks |-> {}, shape |-> "none"]

\* Upload handles: every generated document under a matching name, and a few
\* whose name and bytes disagree or whose extension is not supported.
Uploads(n) ==
    {Upload(NameOf(c.format), c) : c \in Contents(n)}
    \cup {Upload(NamePdfUpper, [SampleDocx EXCEPT !.format = "pdf"]),
          Upload(NameTxt, SampleDocx), Upload(NamePdf, SampleDocx),
          Upload(NameDocx, Garbage)}

\* URL strings, with the bytes the server holds.
Urls(n) == {Str(UrlOf(c.format), c) : c \in Contents(n)}

\* Strings that are not URLs.
OtherStrings ==
    {Str(NamePdf, Garbage), Str(<<"f", "t", "p", ":", "/", "/", "h", "/">> \o NamePdf, SampleDocx)}

Queries == {<<"f", "e", "e">>, <<"d", "e", "a", "d", "l", "i", "n", "e">>}
ApiKeys == {None, Some("gsk_key")}

\* -------------------------------------------------------------------- state
VARIABLES
    GROQ_API_KEY,       \* the environment variable, None when unset
    api_key,            \* process_query's arguments
    file_or_url,
    query,
    embedding_model,
    pc,                 \* process_query's position
    document_chunks,    \* process_query's locals
    index,
    indices,
    retrieved_clauses,
    llm_response,       \* the chat service's reaction to the one request
    synthesized_answer,
    ret,                \* the value process_query returned
    exception,          \* the exception that left process_query, "" if none
    calls,              \* the stages process_query has invoked, in order
    app_pc,             \* the application: "startup", "ready", "running", "stopped"
    session_result,     \* st.session_state.result
    st_error            \* the message st.error showed in the current script run

args == <<api_key, file_or_url, query, embedding_model>>
locals == <<document_chunks, index, indices, retrieved_clauses, llm_response,
            synthesized_answer>>
app == <<app_pc, session_result, st_error>>
vars == <<GROQ_API_KEY, args, pc, locals, ret, exception, calls, app>>

\* process_query's locals before its first line.
Fresh ==
    /\ document_chunks = None
    /\ index = None
    /\ indices = <<>>
    /\ retrieved_clauses = None
    /\ llm_response = LlmUnsent
    /\ synthesized_answer = None
    /\ ret = None
    /\ exception = ""
    /\ calls = <<>>

\* ------------------------------------------------------------ process_query
Return(value) == pc' = "done" /\ ret' = Some(value) /\ exception' = exception
Raise(e) == pc' = "raised" /\ exception' = e /\ ret' = ret
Goto(label) == pc' = label /\ ret' = ret /\ exception' = exception

\* Lines 134-137.
ClientInit ==
    /\ pc = "client_init"
    /\ calls' = Append(calls, "client_init")
    /\ IF GroqInitRaises(api_key, GROQ_API_KEY) THEN Return(ClientInitError)
       ELSE Goto("extract")
    /\ UNCHANGED <<GROQ_API_KEY, args, locals, app>>

\* Lines 139-141.
Extract ==
    /\ pc = "extract"
    /\ calls' = Append(calls, "extract")
    /\ \E fetch \in FetchOutcomes :
         LET r == ExtractTextFromDocument(file_or_url, fetch)
         IN IF r.raised # "" THEN Raise(r.raised) /\ UNCHANGED document_chunks
            ELSE /\ document_chunks' = r.value
                 /\ IF r.value = None THEN Return(ExtractionError) ELSE Goto("index")
    /\ UNCHANGED <<GROQ_API_KEY, args, index, indices, retrieved_clauses, llm_response,
                   synthesized_answer, app>>

\* Line 143.
DocumentTexts(chunks) == [i \in 1..Len(chunks) |-> chunks[i].text]

\* Lines 143-147.
BuildIndex ==
    /\ pc = "index"
    /\ calls' = Append(calls, "index")
    /\ \E encode_ok \in BOOLEAN :
         /\ index' = CreateFaissIndex(DocumentTexts(document_chunks.some),
                                      embedding_model, encode_ok)
         /\ IF index' = None THEN Return(EmbeddingError) ELSE Goto("search")
    /\ UNCHANGED <<GROQ_API_KEY, args, document_chunks, indices, retrieved_clauses,
                   llm_response, synthesized_answer, app>>

\* Lines 149-155.
Search ==
    /\ pc = "search"
    /\ calls' = Append(calls, "search")
    /\ \E encode_ok \in BOOLEAN :
         IF encode_ok
         THEN \E labels \in IndexSearch(index.some, Encode(embedding_model, query), K) :
                /\ indices' = labels
                /\ retrieved_clauses' = Some(Retrieve(document_chunks.some, labels))
                /\ Goto("synthesize")
         ELSE Return(SearchError) /\ UNCHANGED <<indices, retrieved_clauses>>
    /\ UNCHANGED <<GROQ_API_KEY, args, document_chunks, index, llm_response,
                   synthesized_answer, app>>

\* Line 157.
Synthesize ==
    /\ pc = "synthesize"
    /\ calls' = Append(calls, "synthesize")
    /\ \E response \in LlmResponses :
         /\ llm_response' = response
         /\ synthesized_answer' = SynthesizeAnswerWithGroq(response)
    /\ Goto("finish")
    /\ UNCHANGED <<GROQ_API_KEY, args, document_chunks, index, indices,
                   retrieved_clauses, app>>

\* Lines 159-173.
Finish ==
    /\ pc = "finish"
    /\ Return(FinalResult(synthesized_answer, retrieved_clauses.some))
    /\ UNCHANGED <<GROQ_API_KEY, args, locals, calls, app>>

\* A direct call of process_query: any key, any document reference.
Init ==
    /\ GROQ_API_KEY = None
    /\ api_key \in ApiKeys
    /\ file_or_url \in Uploads(MaxUnits) \cup Urls(MaxRemoteUnits) \cup OtherStrings
    /\ query \in Queries
    /\ embedding_model \in EmbeddingModels
    /\ pc = "client_init"
    /\ Fresh
    /\ app_pc = "none"
    /\ session_result = None
    /\ st_error = ""

Next ==
    \/ ClientInit
    \/ Extract
    \/ BuildIndex
    \/ Search
    \/ Synthesize
    \/ Finish

Spec == Init /\ [][Next]_vars

\* ------------------------------------------------------------------- app.py
\* load_embedding_model (line 103) loads one fixed model.
AppEmbeddingModel == 1

\* What the widgets can hold when Analyze is pressed: no upload, an empty
\* text field, any other string, or an uploaded pdf / docx / eml file.
AppDocumentInputs ==
    {NoDocument, Str(<<>>, Garbage)} \cup OtherStrings \cup Urls(MaxRemoteUnits)
    \cup {u \in Uploads(MaxRemoteUnits) : u.name # NameTxt}
AppQueries == {<<>>} \cup Queries

\* Python truthiness of an environment value, a widget value, a result.
KeyPresent(key) == key # None /\ key.some # ""
DocumentGiven(doc) == doc.kind = "upload" \/ (doc.kind = "str" /\ doc.value # <<>>)
QueryGiven(q) == q # <<>>
ResultShown(result) ==
    /\ result # None
    /\ \/ result.some.type = "dict" /\ DOMAIN result.some.v # {}
       \/ result.some.type = "list" /\ result.some.v # <<>>
\* `"error" in result`
HasError(result) ==
    IF result.some.type = "dict" THEN "error" \in DOMAIN result.some.v ELSE FALSE

\* Mutant of AnalyzeBranch: the `elif not query` test left out.
AnalyzeBranchNoQueryCheck(doc, q) == IF ~DocumentGiven(doc) THEN "no_document" ELSE "run"

\* Lines 142-146: the handler's choice once the button is pressed.
AnalyzeBranch(doc, q) ==
    IF ~DocumentGiven(doc) THEN "no_document"
    ELSE IF ~QueryGiven(q) THEN "no_query"
    ELSE "run"

\* Lines 12-15 and 96-97: the script's start.
Startup ==
    /\ app_pc = "startup"
    /\ IF KeyPresent(GROQ_API_KEY)
       THEN app_pc' = "ready" /\ st_error' = st_error
       ELSE app_pc' = "stopped" /\ st_error' = "GROQ_API_KEY environment variable not set!"
    /\ session_result' = None
    /\ UNCHANGED <<GROQ_API_KEY, args, pc, locals, ret, exception, calls>>

\* Lines 141-155: Analyze Document is pressed; the handler rejects the input
\* or loads the model and calls process_query.
AnalyzePress ==
    /\ app_pc = "ready"
    /\ \E doc \in AppDocumentInputs, q \in AppQueries, load_ok \in BOOLEAN :
         LET branch == AnalyzeBranch(doc, q)
         IN IF branch = "run" /\ load_ok
            THEN /\ api_key' = GROQ_API_KEY
                 /\ file_or_url' = doc
                 /\ query' = q
                 /\ embedding_model' = AppEmbeddingModel
                 /\ pc' = "client_init"
                 /\ app_pc' = "running"
                 /\ st_error' = ""
            ELSE /\ st_error' = (CASE branch = "no_document" -> "Please provide a document or URL"
                                   [] branch = "no_query" -> "Please enter a question"
                                   [] OTHER -> "Failed to load model: ")
                 /\ UNCHANGED <<args, pc, app_pc>>
    /\ UNCHANGED <<GROQ_API_KEY, locals, ret, exception, calls, session_result>>

\* process_query's frame is gone once it has returned or raised.
FrameDropped ==
    /\ pc' = "idle"
    /\ document_chunks' = None
    /\ index' = None
    /\ indices' = <<>>
    /\ retrieved_clauses' = None
    /\ llm_response' = LlmUnsent
    /\ synthesized_answer' = None
    /\ ret' = None
    /\ exception' = ""
    /\ calls' = <<>>

\* Line 150: the returned value is stored.
AnalyzeReturn ==
    /\ app_pc = "running"
    /\ pc = "done"
    /\ session_result' = ret
    /\ app_pc' = "ready"
    /\ FrameDropped
    /\ UNCHANGED <<GROQ_API_KEY, args, st_error>>

\* Lines 156-157: an exception out of process_query is shown.
AnalyzeExcept ==
    /\ app_pc = "running"
    /\ pc = "raised"
    /\ st_error' = "Analysis failed: "
    /\ app_pc' = "ready"
    /\ FrameDropped
    /\ UNCHANGED <<GROQ_API_KEY, args, session_result>>

\* Lines 192-194: New Analysis, offered below a result without an error.
NewAnalysis ==
    /\ app_pc = "ready"
    /\ ResultShown(session_result)
    /\ ~HasError(session_result)
    /\ session_result' = None
    /\ st_error' = ""
    /\ UNCHANGED <<GROQ_API_KEY, args, pc, locals, ret, exception, calls, app_pc>>

InitApp ==
    /\ GROQ_API_KEY \in {None, Some(""), Some("gsk_key")}
    /\ api_key = None
    /\ file_or_url = NoDocument
    /\ query = <<>>
    /\ embedding_model = AppEmbeddingModel
    /\ pc = "idle"
    /\ Fresh
    /\ app_pc = "startup"
    /\ session_result = None
    /\ st_error = ""

NextApp ==
    \/ Startup
    \/ AnalyzePress
    \/ ClientInit
    \/ Extract
    \/ BuildIndex
    \/ Search
    \/ Synthesize
    \/ Finish
    \/ AnalyzeReturn
    \/ AnalyzeExcept
    \/ NewAnalysis

SpecApp == InitApp /\ [][NextApp]_vars

\* =================================================================== claims
Terminated == pc \in {"done", "raised"}
LastCall == calls[Len(calls)]
Called(stage) == \E i \in 1..Len(calls) : calls[i] = stage
ThreeKeys == {"relevant_clause", "explanation", "source_reference"}

\* The squared distance of a chunk's embedding to the query's embedding.
DistanceToQuery(chunk) ==
    SquaredL2(Encode(embedding_model, chunk.text), Encode(embedding_model, query))

\* `value` is the three-key dictionary showing `chunk` under `explanation`.
ShowsClause(value, explanation, chunk) ==
    /\ value.type = "dict"
    /\ DOMAIN value.v = ThreeKeys
    /\ value.v.explanation = explanation
    /\ value.v.relevant_clause = chunk.text
    /\ value.v.source_reference = chunk.source

\* C1: whatever the document reference and whatever the stages do,
\* process_query returns a value: no exception leaves it.
C1_NoExceptionEscapes == pc # "raised" /\ exception = ""

\* C2: every value process_query returns is a dictionary whose keys are
\* exactly relevant_clause, explanation and source_reference, or exactly error.
C2_ResultShape ==
    pc = "done" =>
        /\ ret.some.type = "dict"
        /\ DOMAIN ret.some.v \in {ThreeKeys, {"error"}}

\* C3: strict pipeline with early exit: a call that ends at a stage before
\* the synthesizer has returned {error: that stage's message}; the embedding
\* service is not called after a failed extraction, and the language model is
\* called only after extraction, index building and search all succeeded.
C3_StrictPipeline ==
    /\ (Terminated /\ LastCall = "client_init") => (pc = "done" /\ ret = Some(ClientInitError))
    /\ (Terminated /\ LastCall = "extract") => (pc = "done" /\ ret = Some(ExtractionError))
    /\ (Terminated /\ LastCall = "index") => (pc = "done" /\ ret = Some(EmbeddingError))
    /\ (Terminated /\ LastCall = "search") => (pc = "done" /\ ret = Some(SearchError))
    /\ \A i \in 1..Len(calls) :
         calls[i] = <<"client_init", "extract", "index", "search", "synthesize">>[i]
    /\ Called("index") => document_chunks # None
    /\ Called("synthesize") =>
           (document_chunks # None /\ index # None /\ retrieved_clauses # None)

\* C4: for a document of n >= 1 chunks the retrieved sequence handed to the
\* synthesizer has length min(3, n) and repeats no chunk.
C4_RetrievedCount ==
    retrieved_clauses # None =>
        LET r == retrieved_clauses.some
        IN /\ Len(r) = Min(K, Len(document_chunks.some))
           /\ \A i, j \in 1..Len(r) : i # j => r[i] # r[j]

\* C5: the retrieved chunks are in non-decreasing order of distance to the
\* query, and the first of them is a nearest chunk of the document.
C5_AscendingDistance ==
    retrieved_clauses # None =>
        LET r == retrieved_clauses.some
        IN /\ \A i \in 1..(Len(r) - 1) : DistanceToQuery(r[i]) <= DistanceToQuery(r[i + 1])
           /\ \A j \in 1..Len(document_chunks.some) :
                DistanceToQuery(r[1]) <= DistanceToQuery(document_chunks.some[j])

\* C6: when the language-model call raises, process_query returns the
\* three-key result with the "Model failed ..." explanation and the text and
\* source label of the first retrieved chunk, which is a nearest chunk.
C6_ModelFailedFallback ==
    (pc = "done" /\ llm_response = LlmRaised) =>
        /\ ShowsClause(ret.some, ModelFailed, retrieved_clauses.some[1])
        /\ \A j \in 1..Len(document_chunks.some) :
             DistanceToQuery(retrieved_clauses.some[1])
                <= DistanceToQuery(document_chunks.some[j])

C6_Witness ==
    /\ pc = "done"
    /\ llm_response = LlmRaised
    /\ Len(document_chunks.some) >= 2
    /\ indices[1] # 0
    /\ ret.some.v.relevant_clause = document_chunks.some[indices[1] + 1].text

\* The content parses to a dictionary with exactly the three expected keys.
ExpectedShape(content) ==
    /\ content # ""
    /\ JsonLoads(content).type = "dict"
    /\ DOMAIN JsonLoads(content).v = ThreeKeys

\* C7: whenever the service answers with content that does not parse to the
\* expected three-key object, process_query returns the fallback with the
\* "Invalid JSON response ..." explanation and the top retrieved chunk.
C7_InvalidJsonFallback ==
    (pc = "done" /\ llm_response.state = "answered" /\ ~ExpectedShape(llm_response.content)) =>
        ShowsClause(ret.some, InvalidJson, retrieved_clauses.some[1])

\* C8 as stated: the locators of the extracted chunks are strictly increasing
\* and the first chunk's locator is 1.
C8_StrictlyIncreasingFromOne ==
    document_chunks # None =>
        LET c == document_chunks.some
        IN /\ c[1].page = 1
           /\ \A i \in 1..(Len(c) - 1) : c[i].page < c[i + 1].page

\* C8 amended: the locators are at least 1 and non-decreasing in output
\* order, each chunk's source label carries its locator, and for the Word and
\* e-mail formats the locators are strictly increasing.
C8_Locators ==
    document_chunks # None =>
        LET c == document_chunks.some
        IN /\ \A i \in 1..Len(c) : c[i].page >= 1 /\ c[i].source[2] = c[i].page
           /\ \A i \in 1..(Len(c) - 1) :
                /\ c[i].page <= c[i + 1].page
                /\ c[i].source[1] # "PDF page " => c[i].page < c[i + 1].page

C8_Witness ==
    /\ document_chunks # None
    /\ Len(document_chunks.some) >= 3
    /\ document_chunks.some[1].page > 1
    /\ document_chunks.some[2].page = document_chunks.some[3].page

\* Every unit of the uploaded Word or PDF document normalises to at most
\* MinChunkLen characters.
NothingSurvives ==
    /\ file_or_url.kind = "upload"
    /\ file_or_url.content.format \in {"pdf", "docx"}
    /\ \A i \in 1..Len(file_or_url.content.units) : file_or_url.content.units[i] = "edge"

\* C9: every extracted chunk is longer than 40 characters, so no shorter text
\* is embedded, indexed, retrieved or shown as a fallback clause; a document
\* none of whose units survives the filter yields the failure signal, never
\* an empty list.
C9_MinimumLength ==
    /\ document_chunks # None =>
         /\ document_chunks.some # <<>>
         /\ \A i \in 1..Len(document_chunks.some) :
              Len(document_chunks.some[i].text) > MinChunkLen
    /\ index # None => Len(index.some) = Len(document_chunks.some)
    /\ retrieved_clauses # None =>
         \A i \in 1..Len(retrieved_clauses.some) :
            Len(retrieved_clauses.some[i].text) > MinChunkLen
    /\ (pc = "done" /\ ret.some.type = "dict"
            /\ DOMAIN ret.some.v = ThreeKeys
            /\ ret.some.v.explanation \in {ModelFailed, InvalidJson}) =>
         Len(ret.some.v.relevant_clause) > MinChunkLen
    /\ (NothingSurvives /\ Called("extract")) =>
         (document_chunks = None /\ pc = "done" /\ ret = Some(ExtractionError))

C9_Witness ==
    /\ pc = "done"
    /\ file_or_url.kind = "upload"
    /\ \E i \in 1..Len(file_or_url.content.units) : file_or_url.content.units[i] = "edge"
    /\ ret.some.type = "dict"
    /\ DOMAIN ret.some.v = ThreeKeys
    /\ ret.some.v.explanation = InvalidJson
    /\ Len(ret.some.v.relevant_clause) = MinChunkLen + 1

InputErrors == {"Please provide a document or URL", "Please enter a question"}

\* C10: in the application process_query runs only with the credential
\* present and a non-empty document reference and query; without the
\* credential the application stops at startup and never analyses; a press of
\* Analyze that shows an input error starts no pipeline and leaves the stored
\* result as it was.
C10_GuardedInvocation ==
    /\ [](pc # "idle" =>
            /\ app_pc = "running"
            /\ KeyPresent(GROQ_API_KEY)
            /\ api_key = GROQ_API_KEY
            /\ DocumentGiven(file_or_url)
            /\ QueryGiven(query))
    /\ [](~KeyPresent(GROQ_API_KEY) =>
            (app_pc \in {"startup", "stopped"} /\ pc = "idle" /\ session_result = None))
    /\ [][st_error' \in InputErrors =>
            (session_result' = session_result /\ pc' = pc /\ calls' = calls
                /\ app_pc' = app_pc)]_vars

C10_Witness ==
    /\ app_pc = "ready"
    /\ st_error = "Please enter a question"
    /\ ResultShown(session_result)
    /\ pc = "idle"
====
